---- MODULE Spec2Model ----
(***************************************************************************)
(* A model of hui's rectangle layer: the instance store of                 *)
(* core/rectangle.rs (RectangleRenderer: a SlotMap of Rectangle records,   *)
(* the staging vector instance_bytes and the Dirtiness flag), and the      *)
(* Renderer of rendering/renderer.rs that draws it into an offscreen target and *)
(* composites that target onto the surface; and the Block widget of        *)
(* components/widgets/block.rs that owns one instance of the store; and    *)
(* the InputState of components/common/input_state.rs.                     *)
(*                                                                         *)
(* Staging and GPU buffers are sequences of cells, one cell per field of   *)
(* the #[repr(C)] Rectangle record in declared order; SIZE counts cells.   *)
(***************************************************************************)
EXTENDS Integers, Sequences, FiniteSets, TLC

(* ------------------------------ bounds --------------------------------- *)

\* most slots the SlotMap grows to in Spec
MaxSlots == 2

\* highest slot version handed out (versions are odd while occupied)
MaxVersion == 3

\* most records the staging vector holds before an add is held back
MaxStaged == 2

\* most textures the device creates (new + resizes)
MaxTextures == 4

\* how far past MAX_INSTANCE_COUNT the capacity run lets the store grow
MaxOver == 1

\* most resize calls in the run that follows the render targets
MaxResizes == 3

\* most Block values the caller makes in the run that follows the widgets
MaxBlocks == 2

\* most Block values the caller makes in the runs that follow build_model
\* and the geometry of placed blocks
MaxModelled == 1

(* --------------------------- program constants ------------------------- *)

MAX_INSTANCE_COUNT == 1024

INDICES == <<1, 0, 2, 1, 3, 2>>

\* struct Rectangle, fields in declared (#[repr(C)]) order
FieldOrder ==
    << "mvp", "fill_color", "border_color", "corner_radii", "shadow_color",
       "half_size", "border_size", "shadow_spread", "shadow_offset",
       "shadow_blur", "_padding" >>

\* Rectangle::SIZE, in cells
SIZE == Len(FieldOrder)

\* enum Dirtiness, in declaration order
Dirtiness == << "Clean", "RedrawRequired", "RebuildAndRedrawRequired" >>

DirtinessRank(d) == CHOOSE i \in 1..Len(Dirtiness) : Dirtiness[i] = d

(* -------------------------------- inputs ------------------------------- *)

\* a Rectangle as its builder makes it: _padding is skipped, so zeroed
RectangleOf(mvp, half, fill) ==
    [ mvp |-> mvp, fill_color |-> fill, border_color |-> 0,
      corner_radii |-> 0, shadow_color |-> 0, half_size |-> half,
      border_size |-> 0, shadow_spread |-> 0, shadow_offset |-> 0,
      shadow_blur |-> 0, _padding |-> 0 ]

\* the rectangles callers hand to add_rectangle
Rectangles == { RectangleOf(1, 1, 1), RectangleOf(2, 1, 1) }

\* what a caller does with the handle get_mut returns: nothing, or a write
NoWrite == [ kind |-> "none" ]

Writes == { NoWrite, [ kind |-> "geometry", mvp |-> 2, half_size |-> 1 ] }

\* mutant: a geometry write also puts the default fill colour back
ApplyWrite_refills(r, w) ==
    CASE w.kind = "geometry" ->
            [ r EXCEPT !.mvp = w.mvp, !.half_size = w.half_size,
                       !.fill_color = 1 ]
      [] w.kind = "style" ->
            [ r EXCEPT !.fill_color = w.style.fill_color,
                       !.border_color = w.style.border_color,
                       !.corner_radii = w.style.corner_radii,
                       !.shadow_color = w.style.shadow_color,
                       !.border_size = w.style.border_size,
                       !.shadow_spread = w.style.shadow_spread,
                       !.shadow_offset = w.style.shadow_offset,
                       !.shadow_blur = w.style.shadow_blur ]
      [] OTHER -> r

\* the record after the caller wrote w through the handle
ApplyWrite(r, w) ==
    CASE w.kind = "geometry" ->
            [ r EXCEPT !.mvp = w.mvp, !.half_size = w.half_size ]
      [] w.kind = "style" ->
            [ r EXCEPT !.fill_color = w.style.fill_color,
                       !.border_color = w.style.border_color,
                       !.corner_radii = w.style.corner_radii,
                       !.shadow_color = w.style.shadow_color,
                       !.border_size = w.style.border_size,
                       !.shadow_spread = w.style.shadow_spread,
                       !.shadow_offset = w.style.shadow_offset,
                       !.shadow_blur = w.style.shadow_blur ]
      [] OTHER -> r

\* the surface configurations a Renderer is constructed with
SurfaceConfigs ==
    { [ width |-> 2, height |-> 1, format |-> "Bgra8UnormSrgb" ] }

\* the sizes resize is called with
Extents == { << 1, 3 >> }

(* --------------------------- bytemuck::bytes_of ------------------------ *)

\* the record's cells in field order
bytes_of(r) == [ i \in 1..SIZE |-> r[FieldOrder[i]] ]

\* iter.flat_map(bytes_of): the records' cells, one record after the other
flat_map_bytes_of(rs) ==
    [ i \in 1..(Len(rs) * SIZE) |->
        bytes_of(rs[((i - 1) \div SIZE) + 1])[((i - 1) % SIZE) + 1] ]

(* ------------------------------- SlotMap ------------------------------- *)
(* slots[i] is the slot of index i (the sentinel slot 0 is left out); a    *)
(* slot is occupied while its version is odd; vacant slots chain through   *)
(* next_free from free_head. Versions are u32 and remove bumps them with   *)
(* wrapping_add(1); every add is held to versions <= MaxVersion, far below *)
(* the wrap, so the bump is a plain + 1 here.                              *)

NoValue == [ vacant |-> TRUE ]

None == [ some |-> FALSE ]

Some(v) == [ some |-> TRUE, value |-> v ]

Key(idx, version) == [ idx |-> idx, version |-> version ]

SlotMapNew == [ slots |-> << >>, free_head |-> 1, num_elems |-> 0 ]

Occupied(slot) == slot.version % 2 = 1

\* mutant: the slot index alone decides, the version is not compared
contains_key_by_index(sm, k) ==
    /\ k.idx \in 1..Len(sm.slots)
    /\ Occupied(sm.slots[k.idx])

\* the version check every keyed access makes
contains_key(sm, k) ==
    /\ k.idx \in 1..Len(sm.slots)
    /\ sm.slots[k.idx].version = k.version

\* mutant: a vacated slot gives out the key it gave out last
InsertKey_reissued(sm) ==
    IF sm.free_head \in 1..Len(sm.slots)
    THEN Key(sm.free_head, sm.slots[sm.free_head].version - 1)
    ELSE Key(Len(sm.slots) + 1, 1)

\* the key the next insert returns
InsertKey(sm) ==
    IF sm.free_head \in 1..Len(sm.slots)
    THEN LET v == sm.slots[sm.free_head].version
         IN  Key(sm.free_head, IF v % 2 = 0 THEN v + 1 ELSE v)
    ELSE Key(Len(sm.slots) + 1, 1)

insert(sm, value) ==
    LET k == InsertKey(sm)
    IN  IF sm.free_head \in 1..Len(sm.slots)
        THEN [ slots |->
                 [ sm.slots EXCEPT ![k.idx] =
                     [ version |-> k.version, value |-> value,
                       next_free |-> 0 ] ],
               free_head |-> sm.slots[k.idx].next_free,
               num_elems |-> sm.num_elems + 1 ]
        ELSE [ slots |->
                 Append(sm.slots,
                        [ version |-> 1, value |-> value, next_free |-> 0 ]),
               free_head |-> k.idx + 1,
               num_elems |-> sm.num_elems + 1 ]

\* get_mut: a handle on the slot of k, or nothing
slotmap_get_mut(sm, k) ==
    IF contains_key(sm, k) THEN Some(k.idx) ELSE None

\* remove: whether a value is taken out of the slot of k (Some) or not
slotmap_removed(sm, k) ==
    IF contains_key(sm, k) THEN Some(k.idx) ELSE None

\* mutant: the write reaches whatever the slot of k holds, version unseen
slotmap_written_unchecked(sm, k, w) ==
    IF k.idx \in 1..Len(sm.slots) /\ Occupied(sm.slots[k.idx])
    THEN [ sm EXCEPT !.slots[k.idx].value = ApplyWrite(@, w) ]
    ELSE sm

\* the map after the caller wrote w through the handle of k
slotmap_written(sm, k, w) ==
    IF contains_key(sm, k)
    THEN [ sm EXCEPT !.slots[k.idx].value = ApplyWrite(@, w) ]
    ELSE sm

\* mutant: remove vacates the key's slot without the contains_key check
slotmap_remove_unchecked(sm, k) ==
    IF k.idx \in 1..Len(sm.slots) /\ Occupied(sm.slots[k.idx])
    THEN [ slots |->
             [ sm.slots EXCEPT ![k.idx] =
                 [ version |-> sm.slots[k.idx].version + 1,
                   value |-> NoValue, next_free |-> sm.free_head ] ],
           free_head |-> k.idx,
           num_elems |-> sm.num_elems - 1 ]
    ELSE sm

slotmap_remove(sm, k) ==
    IF contains_key(sm, k)
    THEN [ slots |->
             [ sm.slots EXCEPT ![k.idx] =
                 [ version |-> k.version + 1,
                   value |-> NoValue, next_free |-> sm.free_head ] ],
           free_head |-> k.idx,
           num_elems |-> sm.num_elems - 1 ]
    ELSE sm

\* values(): the occupied slots' values, in slot order
values(sm) ==
    LET occupied == SelectSeq(sm.slots, Occupied)
    IN  [ i \in 1..Len(occupied) |-> occupied[i].value ]

\* mutant: the map never reports itself empty
is_empty_never(sm) == FALSE

is_empty(sm) == sm.num_elems = 0

len(sm) == sm.num_elems

(* -------------------------------- state -------------------------------- *)

VARIABLES
    instances,              \* RectangleRenderer.instances
    instance_bytes,         \* RectangleRenderer.instance_bytes (staging)
    dirtiness,              \* RectangleRenderer.dirtiness
    instance_buffer,        \* the GPU instance buffer's cells last written
    is_redraw_required,     \* Renderer.is_redraw_required
    offscreen_texture,      \* Renderer.offscreen_texture
    offscreen_texture_view, \* Renderer.offscreen_texture_view
    depth_texture_view,     \* Renderer.depth_texture_view
    bind_group,             \* CompositeRenderer.bind_group
    pipelines,              \* the formats the render pipelines were built for
    blocks,                 \* the Block values the caller holds
    input_state,            \* the InputState the caller holds
    textures_created,       \* textures the device has created
    status,                 \* "running", or "panicked" once a call panicked
    device_error,           \* the device reported a validation error
    call,                   \* the last call: arguments, result, what it recorded
    hist                    \* what has happened since the last draw / render

vars ==
    << instances, instance_bytes, dirtiness, instance_buffer,
       is_redraw_required, offscreen_texture, offscreen_texture_view,
       depth_texture_view, bind_group, pipelines, blocks, input_state,
       textures_created, status, device_error, call, hist >>

store_vars == << instances, instance_bytes, dirtiness, instance_buffer >>

target_vars ==
    << offscreen_texture, offscreen_texture_view, depth_texture_view,
       bind_group, pipelines, textures_created >>

(* --------------------------- RectangleRenderer ------------------------- *)

is_redraw_required_of(d) == d # "Clean"

\* mutant: get_mut asks for a redraw only
get_mut_dirtiness_redraw(d) ==
    IF d = "Clean" THEN "RedrawRequired" ELSE d

get_mut_dirtiness(d) == "RebuildAndRedrawRequired"

\* mutant: add sets RedrawRequired without looking at the current state
add_dirtiness_downgrades(d) == "RedrawRequired"

add_dirtiness(d) ==
    IF d # "RebuildAndRedrawRequired" THEN "RedrawRequired" ELSE d

\* mutant: remove asks for a redraw only
remove_dirtiness_redraw(d) == IF d = "Clean" THEN "RedrawRequired" ELSE d

remove_dirtiness(d) == "RebuildAndRedrawRequired"

\* mutant: add leaves the staging vector as it is
add_bytes_skipped(bytes, instance) == bytes

\* add: the staging vector after extend_from_slice
add_bytes(bytes, instance) == bytes \o bytes_of(instance)

\* mutant: render leaves Dirtiness as it found it
render_dirtiness_kept(d) == d

\* render: the Dirtiness it leaves after draw_indexed
render_dirtiness(d) == "Clean"

\* mutant: render never regenerates the staging vector
render_rebuilds_never(d) == FALSE

\* mutant: render regenerates the staging vector whenever the store is dirty
render_rebuilds_when_dirty(d) == d # "Clean"

\* render: whether the staging vector is cleared and regenerated
render_rebuilds(d) == d = "RebuildAndRedrawRequired"

\* mutant: the upload slices the staging vector as render found it
render_bytes_kept(sm, bytes, d) == bytes

\* render: the staging vector the upload slices
render_bytes(sm, bytes, d) ==
    IF render_rebuilds(d) THEN flat_map_bytes_of(values(sm)) ELSE bytes

\* queue.write_buffer(buffer, 0, data): data over the buffer's first cells.
\* Cells past the last write are never bound (the draw binds
\* slice(..bytes_written)), and instance_buffer holds the written cells only
write_buffer(buffer, data) == data

\* what render leaves when nothing is recorded
RenderNothing(bytes, d, buffer) ==
    [ instance_bytes |-> bytes, dirtiness |-> d, instance_buffer |-> buffer,
      panicked |-> FALSE, device_error |-> FALSE, rebuilt |-> FALSE,
      uploads |-> << >>, draws |-> << >> ]

\* RectangleRenderer::render; overrun is what the device does with a write
\* past the end of the instance buffer
rectangle_render(sm, bytes, d, buffer, overrun) ==
    IF is_empty(sm) THEN RenderNothing(bytes, d, buffer)
    ELSE
      LET staged        == render_bytes(sm, bytes, d)
          bytes_written == len(sm) * SIZE
          data          == SubSeq(staged, 1, bytes_written)
          base          == [ RenderNothing(staged, d, buffer)
                               EXCEPT !.rebuilt = render_rebuilds(d) ]
          draw          == [ indices |-> Len(INDICES), instances |-> len(sm),
                             buffer_cells |-> bytes_written ]
      IN  IF bytes_written > Len(staged)
          THEN [ base EXCEPT !.panicked = TRUE ]
          ELSE IF bytes_written > MAX_INSTANCE_COUNT * SIZE
          THEN IF overrun = "panic"
               THEN [ base EXCEPT !.panicked = TRUE ]
               ELSE [ base EXCEPT !.device_error = TRUE,
                                  !.draws = << draw >>,
                                  !.dirtiness = render_dirtiness(d) ]
          ELSE [ base EXCEPT !.instance_buffer = write_buffer(buffer, data),
                             !.uploads = << [ offset |-> 0, data |-> data ] >>,
                             !.draws = << draw >>,
                             !.dirtiness = render_dirtiness(d) ]

(* -------------------------------- Renderer ----------------------------- *)

\* mutant: the offscreen pass is opened for the Renderer's own flag only
offscreen_gate_flag_only(flag, d) == flag

\* Renderer::render: whether the offscreen pass is opened
offscreen_gate(flag, d) == flag \/ is_redraw_required_of(d)

\* mutant: resize leaves the flag unset
resize_flag_unset == FALSE

\* Renderer::resize: the flag it leaves
resize_flag == TRUE

\* mutant: new starts with the flag unset
new_flag_unset == FALSE

\* Renderer::new: the flag it starts with
new_flag == TRUE

\* the pass render opens on the offscreen target
offscreen_pass(view) == [ label |-> "hui::render_pass", view |-> view ]

\* the pass render opens on the surface
composite_pass == [ label |-> "hui::composite_pass",
                    view |-> "surface_texture_view" ]

\* mutant: the composite pass is opened only when the offscreen pass was
render_passes_when_redrawn(gate, view) ==
    IF gate THEN << offscreen_pass(view), composite_pass >> ELSE << >>

\* the passes one render records, in order
render_passes(gate, view) ==
    (IF gate THEN << offscreen_pass(view) >> ELSE << >>)
    \o << composite_pass >>

\* CompositeRenderer::render
composite_render(bg) ==
    [ bind_group |-> bg, vertices |-> 3, instances |-> 1 ]

\* mutant: the depth texture is created with width and height exchanged
create_depth_texture_view_transposed(id, width, height) ==
    [ texture |-> id, width |-> height, height |-> width,
      format |-> "Depth32Float" ]

create_depth_texture_view(id, width, height) ==
    [ texture |-> id, width |-> width, height |-> height,
      format |-> "Depth32Float" ]

create_offscreen_texture(id, width, height, format) ==
    [ id |-> id, width |-> width, height |-> height, format |-> format ]

create_view(texture) == [ texture |-> texture.id ]

create_bind_group(view) == [ view |-> view ]

\* mutant: update_bind_group keeps the bind group it has
update_bind_group_kept(bg, view) == bg

\* CompositeRenderer::update_bind_group: the bind group it leaves
update_bind_group(bg, view) == create_bind_group(view)

\* mutant: resize creates the offscreen texture in a fixed format
resize_format_fixed(texture) == "Bgra8UnormSrgb"

\* Renderer::resize: the format it creates the offscreen texture in
resize_format(texture) == texture.format

\* RectangleRenderer::new and CompositeRenderer::new: the colour target
\* format each create_render_pipeline is given
create_render_pipelines(surface_format) ==
    [ rectangle |-> surface_format, composite |-> surface_format ]

(* ------------------------------ InputState ----------------------------- *)

\* enum MouseButtonState
MouseButtonState == { "Up", "Down" }

\* winit's ElementState
ElementState == { "Pressed", "Released" }

\* winit's MouseButton: the five named buttons and Other(u16) for two codes
MouseButtons ==
    { [ button |-> n ] : n \in { "Left", "Right", "Middle", "Back", "Forward" } }
      \cup { [ button |-> "Other", code |-> c ] : c \in { 0, 8 } }

\* where pointer-movement events put the pointer
CursorPositions == { << 0, 0 >>, << 3, 4 >>, << 4, 3 >> }

\* winit's WindowEvent: MouseInput, CursorMoved, and events of neither kind
WindowEvents ==
    { [ event |-> "MouseInput", state |-> st, button |-> b ] :
        st \in ElementState, b \in MouseButtons }
      \cup { [ event |-> "CursorMoved", position |-> p ] :
               p \in CursorPositions }
      \cup { [ event |-> "CursorEntered" ], [ event |-> "CursorLeft" ] }

\* struct InputState
InputState(mouse_position, left_mouse_button, right_mouse_button) ==
    [ mouse_position |-> mouse_position,
      left_mouse_button |-> left_mouse_button,
      right_mouse_button |-> right_mouse_button ]

\* an InputState before any event: no pointer position, no button held
InputIdle == InputState(None, "Up", "Up")

\* mutant: a button that is not Left counts as Right
on_mouse_input_or_right(input, state, button) ==
    LET button_state == IF state = "Pressed" THEN "Down" ELSE "Up"
    IN  IF button.button = "Left"
        THEN [ input EXCEPT !.left_mouse_button = button_state ]
        ELSE [ input EXCEPT !.right_mouse_button = button_state ]

\* InputState::on_mouse_input(state, button)
on_mouse_input(input, state, button) ==
    LET button_state == IF state = "Pressed" THEN "Down" ELSE "Up"
    IN  CASE button.button = "Left" ->
               [ input EXCEPT !.left_mouse_button = button_state ]
          [] button.button = "Right" ->
               [ input EXCEPT !.right_mouse_button = button_state ]
          [] OTHER -> input

\* InputState::sync(event)
sync(input, event) ==
    IF event.event = "MouseInput"
    THEN on_mouse_input(input, event.state, event.button)
    ELSE input

(* ----------------------------- bookkeeping ----------------------------- *)
(* call and hist record what was called and what has happened; no          *)
(* operation reads them.                                                   *)

NoKey == [ idx |-> 0, version |-> 0 ]

NoPre ==
    [ dirtiness |-> "Clean", is_redraw_required |-> FALSE, mutated |-> FALSE,
      base |-> 0, appended |-> 0, resized |-> FALSE, rendered |-> FALSE,
      changed |-> FALSE, stale |-> FALSE, by |-> "Renderer", block |-> 0,
      view_projection |-> << >> ]

\* what a render sees before it runs
PreRender ==
    [ dirtiness |-> dirtiness, is_redraw_required |-> is_redraw_required,
      mutated |-> hist.mutated, base |-> hist.base,
      appended |-> hist.appended, resized |-> hist.resized,
      rendered |-> hist.rendered, changed |-> hist.changed,
      stale |-> FALSE, by |-> "Renderer", block |-> 0,
      view_projection |-> << >> ]

\* what a keyed call sees before it runs: whether its key was removed before
PreKeyed(id) == [ NoPre EXCEPT !.stale = id \in hist.removed ]

Call(op, id, ret, pre) ==
    [ op |-> op, id |-> id, ret |-> ret, pre |-> pre, passes |-> << >>,
      rectangle_renders |-> 0, rebuilt |-> FALSE, uploads |-> << >>,
      draws |-> << >>, composite |-> << >> ]

HistNew ==
    [ mutated |-> FALSE, base |-> 0, appended |-> 0, resized |-> FALSE,
      rendered |-> FALSE, changed |-> FALSE, issued |-> {}, removed |-> {},
      pointer |-> None, extent |-> << >> ]

\* a get_mut or remove since the last completed draw ends the append-only run
Mutated(h) == [ h EXCEPT !.mutated = TRUE, !.base = 0, !.appended = 0 ]

(* --------------------------------- Init -------------------------------- *)

\* Renderer::new(device, surface_config, ..), with no Block made yet; the
\* caller's InputState is set apart from it
New(cfg) ==
    /\ instances = SlotMapNew
    /\ instance_bytes = << >>
    /\ dirtiness = "Clean"
    /\ instance_buffer = << >>
    /\ is_redraw_required = new_flag
    /\ depth_texture_view =
          create_depth_texture_view(1, cfg.width, cfg.height)
    /\ offscreen_texture =
          create_offscreen_texture(2, cfg.width, cfg.height, cfg.format)
    /\ offscreen_texture_view =
          create_view(create_offscreen_texture(2, cfg.width, cfg.height,
                                               cfg.format))
    /\ bind_group =
          create_bind_group(
             create_view(create_offscreen_texture(2, cfg.width, cfg.height,
                                                  cfg.format)))
    /\ pipelines = create_render_pipelines(cfg.format)
    /\ blocks = << >>
    /\ textures_created = 2
    /\ status = "running"
    /\ device_error = FALSE
    /\ hist = [ HistNew EXCEPT !.extent = << cfg.width, cfg.height >> ]
    /\ call = Call("new", NoKey, None, NoPre)

Init == \E cfg \in SurfaceConfigs : New(cfg) /\ input_state = InputIdle

(* ------------------------------- actions ------------------------------- *)

\* RectangleRenderer::add(instance), reached through Renderer::add_rectangle;
\* pre is what the call record keeps of the caller
AddOf(instance, pre, slot_limit, staged_limit) ==
    LET id == InsertKey(instances)
    IN  /\ status = "running"
        /\ id.idx <= slot_limit
        /\ id.version <= MaxVersion
        /\ Len(instance_bytes) < staged_limit * SIZE
        /\ dirtiness' = add_dirtiness(dirtiness)
        /\ instances' = insert(instances, instance)
        /\ instance_bytes' = add_bytes(instance_bytes, instance)
        /\ call' = Call("add", NoKey, Some(id), pre)
        /\ hist' = [ hist EXCEPT
                       !.appended = IF hist.mutated THEN 0 ELSE @ + 1,
                       !.changed = TRUE,
                       !.issued = @ \cup { id } ]
        /\ UNCHANGED << instance_buffer, is_redraw_required, target_vars,
                        input_state, status, device_error >>

\* RectangleRenderer::get_mut(id), reached through
\* Renderer::get_mut_rectangle, and the write w the caller makes through the
\* handle it gets
GetMutWith(id, w, pre) ==
    /\ status = "running"
    /\ dirtiness' = get_mut_dirtiness(dirtiness)
    /\ instances' = slotmap_written(instances, id, w)
    /\ call' = Call("get_mut", id, slotmap_get_mut(instances, id), pre)
    /\ hist' = [ Mutated(hist) EXCEPT !.changed = TRUE ]
    /\ UNCHANGED << instance_bytes, instance_buffer, is_redraw_required,
                    target_vars, input_state, status, device_error >>

\* RectangleRenderer::remove(id), reached through Renderer::remove_rectangle
RemoveKey(id, pre) ==
    /\ status = "running"
    /\ dirtiness' = remove_dirtiness(dirtiness)
    /\ instances' = slotmap_remove(instances, id)
    /\ call' = Call("remove", id, slotmap_removed(instances, id), pre)
    /\ hist' = [ Mutated(hist) EXCEPT
                   !.changed = TRUE,
                   !.removed = IF contains_key(instances, id)
                               THEN @ \cup { id } ELSE @ ]
    /\ UNCHANGED << instance_bytes, instance_buffer, is_redraw_required,
                    target_vars, input_state, status, device_error >>

\* Renderer::add_rectangle called directly
AddWithin(slot_limit, staged_limit) ==
    \E instance \in Rectangles :
      /\ AddOf(instance, NoPre, slot_limit, staged_limit)
      /\ UNCHANGED blocks

\* Renderer::get_mut_rectangle called directly
GetMutOf(ids) ==
    \E id \in ids, w \in Writes :
      /\ GetMutWith(id, w, PreKeyed(id))
      /\ UNCHANGED blocks

\* Renderer::remove_rectangle called directly
RemoveOf(ids) ==
    \E id \in ids :
      /\ RemoveKey(id, PreKeyed(id))
      /\ UNCHANGED blocks

\* Renderer::resize(device, width, height), at most texture_limit textures
ResizeWithin(extents, texture_limit) ==
    \E extent \in extents :
      LET texture == create_offscreen_texture(textures_created + 2,
                         extent[1], extent[2],
                         resize_format(offscreen_texture))
      IN  /\ status = "running"
          /\ textures_created + 2 <= texture_limit
          /\ depth_texture_view' =
                create_depth_texture_view(textures_created + 1,
                                          extent[1], extent[2])
          /\ offscreen_texture' = texture
          /\ offscreen_texture_view' = create_view(texture)
          /\ bind_group' = update_bind_group(bind_group, create_view(texture))
          /\ textures_created' = textures_created + 2
          /\ is_redraw_required' = resize_flag
          /\ call' = Call("resize", NoKey, None, NoPre)
          /\ hist' = [ hist EXCEPT !.resized = TRUE, !.changed = TRUE,
                                   !.extent = extent ]
          /\ UNCHANGED << store_vars, pipelines, blocks, input_state,
                          status, device_error >>

\* what the device does with a write past the end of the instance buffer
Overruns ==
    IF len(instances) > MAX_INSTANCE_COUNT
    THEN { "panic", "validation_error" } ELSE { "none" }

\* Renderer::render(queue, surface_texture_view, command_encoder)
Render ==
    \E overrun \in Overruns :
      LET gate == offscreen_gate(is_redraw_required, dirtiness)
          r    == IF gate
                  THEN rectangle_render(instances, instance_bytes, dirtiness,
                                        instance_buffer, overrun)
                  ELSE RenderNothing(instance_bytes, dirtiness,
                                     instance_buffer)
          drew == r.draws # << >>
      IN  /\ status = "running"
          /\ instance_bytes' = r.instance_bytes
          /\ dirtiness' = r.dirtiness
          /\ instance_buffer' = r.instance_buffer
          /\ status' = IF r.panicked THEN "panicked" ELSE status
          /\ device_error' = (device_error \/ r.device_error)
          /\ is_redraw_required' =
                IF gate /\ ~r.panicked THEN FALSE ELSE is_redraw_required
          /\ call' = [ Call("render", NoKey, None, PreRender) EXCEPT
                         !.passes =
                            IF r.panicked
                            THEN << offscreen_pass(offscreen_texture_view) >>
                            ELSE render_passes(gate, offscreen_texture_view),
                         !.rectangle_renders = IF gate THEN 1 ELSE 0,
                         !.rebuilt = r.rebuilt,
                         !.uploads = r.uploads,
                         !.draws = r.draws,
                         !.composite =
                            IF r.panicked THEN << >>
                            ELSE << composite_render(bind_group) >> ]
          /\ hist' = [ hist EXCEPT
                         !.mutated = IF drew THEN FALSE ELSE @,
                         !.base = IF drew THEN len(instances) ELSE @,
                         !.appended = IF drew THEN 0 ELSE @,
                         !.resized = FALSE,
                         !.rendered = TRUE,
                         !.changed = FALSE ]
          /\ UNCHANGED << instances, target_vars, blocks, input_state >>

Add == AddWithin(MaxSlots, MaxStaged)

GetMut == GetMutOf(hist.issued)

Remove == RemoveOf(hist.issued)

Resize == ResizeWithin(Extents, MaxTextures)

Next == Add \/ GetMut \/ Remove \/ Resize \/ Render

Spec == Init /\ [][Next]_vars

(* ---------------------------- the full store --------------------------- *)
(* The same operations from a store that MAX_INSTANCE_COUNT adds of one    *)
(* rectangle have filled to the size of the instance buffer; keyed calls   *)
(* take the keys of the adds made after that.                              *)

FullRectangle == RectangleOf(1, 1, 1)

FullKeys == { Key(i, 1) : i \in 1..MAX_INSTANCE_COUNT }

InitFull ==
    \E cfg \in SurfaceConfigs :
      /\ instances =
            [ slots |-> [ i \in 1..MAX_INSTANCE_COUNT |->
                            [ version |-> 1, value |-> FullRectangle,
                              next_free |-> 0 ] ],
              free_head |-> MAX_INSTANCE_COUNT + 1,
              num_elems |-> MAX_INSTANCE_COUNT ]
      /\ instance_bytes =
            [ i \in 1..(MAX_INSTANCE_COUNT * SIZE) |->
                bytes_of(FullRectangle)[((i - 1) % SIZE) + 1] ]
      /\ dirtiness = "RedrawRequired"
      /\ instance_buffer = << >>
      /\ is_redraw_required = new_flag
      /\ depth_texture_view =
            create_depth_texture_view(1, cfg.width, cfg.height)
      /\ offscreen_texture =
            create_offscreen_texture(2, cfg.width, cfg.height, cfg.format)
      /\ offscreen_texture_view =
            create_view(create_offscreen_texture(2, cfg.width, cfg.height,
                                                 cfg.format))
      /\ bind_group =
            create_bind_group(
               create_view(create_offscreen_texture(2, cfg.width, cfg.height,
                                                    cfg.format)))
      /\ pipelines = create_render_pipelines(cfg.format)
      /\ blocks = << >>
      /\ input_state = InputIdle
      /\ textures_created = 2
      /\ status = "running"
      /\ device_error = FALSE
      /\ hist = [ HistNew EXCEPT !.appended = MAX_INSTANCE_COUNT,
                                 !.changed = TRUE, !.issued = FullKeys,
                                 !.extent = << cfg.width, cfg.height >> ]
      /\ call = Call("add", NoKey, Some(Key(MAX_INSTANCE_COUNT, 1)), NoPre)

LastKeys == { k \in hist.issued : k.idx > MAX_INSTANCE_COUNT }

FullAdd ==
    AddWithin(MAX_INSTANCE_COUNT + MaxOver, MAX_INSTANCE_COUNT + MaxOver)

FullGetMut == GetMutOf(LastKeys)

FullRemove == RemoveOf(LastKeys)

NextFull == FullAdd \/ FullGetMut \/ FullRemove \/ Render

SpecFull == InitFull /\ [][NextFull]_vars

(* --------------------------- the render targets ------------------------ *)
(* Renderer::new with either surface format, then resizes to either extent *)
(* and renders, with at most one rectangle in the store.                   *)

TargetConfigs ==
    { [ width |-> 2, height |-> 1, format |-> f ] :
        f \in { "Bgra8UnormSrgb", "Rgba8Unorm" } }

TargetExtents == { << 1, 3 >>, << 4, 2 >> }

InitTarget ==
    \E cfg \in TargetConfigs : New(cfg) /\ input_state = InputIdle

TargetAdd == AddWithin(1, 1)

TargetResize == ResizeWithin(TargetExtents, 2 + 2 * MaxResizes)

NextTarget == TargetAdd \/ TargetResize \/ Render

SpecTarget == InitTarget /\ [][NextTarget]_vars

(* ------------------------------- Block --------------------------------- *)
(* A Block is Unpositioned (no Renderer seen yet) or Positioned (it holds   *)
(* the RectangleId of the instance it added, and its position). Sizes are   *)
(* even, so that size / 2.0 is the integer half. Each operation is one      *)
(* step: what it leaves in the block and what its Renderer call leaves.     *)

\* BlockStyle::builder().build(): the defaults
DefaultStyle ==
    [ fill_color |-> 1, border_color |-> 0, corner_radii |-> 0,
      border_size |-> 0, shadow_color |-> 0, shadow_offset |-> 0,
      shadow_blur |-> 0, shadow_spread |-> 0 ]

\* the styles callers give: the defaults, and one with every field set
BlockStyles ==
    { DefaultStyle,
      [ fill_color |-> 2, border_color |-> 3, corner_radii |-> 4,
        border_size |-> 5, shadow_color |-> 6, shadow_offset |-> 7,
        shadow_blur |-> 8, shadow_spread |-> 9 ] }

\* the fields of Rectangle that set_style writes
StyleFields ==
    { "fill_color", "border_color", "corner_radii", "shadow_color",
      "border_size", "shadow_spread", "shadow_offset", "shadow_blur" }

\* the fields of Rectangle that set_size and set_position write
GeometryFields == { "mvp", "half_size" }

BlockSizes == { << 2, 2 >>, << 4, 2 >> }

BlockPositions == { << 0, 0 >>, << 1, 2 >> }

\* what the blocks that are followed once placed are made with, and the
\* position they are placed at and moved to
PlacedSizes == { << 2, 2 >> }

PlacedStyles == BlockStyles \ { DefaultStyle }

PlacedPositions == { << 0, 0 >> }

(* f32 arithmetic, scaled down. A value is a whole multiple of the smallest  *)
(* positive number, taken as 1, and carries MantissaBits significant bits   *)
(* (f32 carries 24); the result of an operation is the exact result rounded *)
(* to the nearest value, a tie going to the even significand.               *)

\* the significant bits of a value
MantissaBits == 4

\* every whole number below this magnitude is a value
MantissaLimit == 2^MantissaBits

abs(x) == IF x < 0 THEN -x ELSE x

RECURSIVE ulp(_)
\* the distance between neighbouring values at magnitude a
ulp(a) == IF a < MantissaLimit THEN 1 ELSE 2 * ulp(a \div 2)

\* the value nearest to the exact result x
f32_round(x) ==
    IF -MantissaLimit < x /\ x < MantissaLimit THEN x
    ELSE LET a  == abs(x)
             q  == ulp(a)
             m  == a \div q
             r  == a % q
             up == 2 * r > q \/ (2 * r = q /\ m % 2 = 1)
             v  == (IF up THEN m + 1 ELSE m) * q
         IN  IF x < 0 THEN -v ELSE v

\* a + b
f32_add(a, b) == f32_round(a + b)

\* a / 2.0: exact for a value that has a half, a tie between two values
\* otherwise
f32_div2(a) ==
    IF a % 2 = 0 THEN a \div 2
    ELSE IF (a \div 2) % 2 = 0 THEN a \div 2 ELSE (a \div 2) + 1

\* Mat4 values are the four columns of to_cols_array_2d()
ViewProjections ==
    { << << 2, 0, 0, 0 >>, << 0, -1, 0, 0 >>, << 0, 0, 1, 0 >>,
         << -1, 1, 0, 1 >> >> }

\* Mat4::IDENTITY
IDENTITY ==
    << << 1, 0, 0, 0 >>, << 0, 1, 0, 0 >>, << 0, 0, 1, 0 >>,
       << 0, 0, 0, 1 >> >>

\* Mat4 * Mat4, every product and sum taken exactly: the runs multiply by
\* IDENTITY, or by ViewProjections with every entry of the result below
\* MantissaLimit, and there f32 rounds nothing
mat4_mul(a, b) ==
    [ c \in 1..4 |->
        [ r \in 1..4 |->
            a[1][r] * b[c][1] + a[2][r] * b[c][2]
              + a[3][r] * b[c][3] + a[4][r] * b[c][4] ] ]

\* Mat4::from_scale_rotation_translation(scale, Quat::IDENTITY, translation)
from_scale_rotation_translation(scale, translation) ==
    << << scale[1], 0, 0, 0 >>, << 0, scale[2], 0, 0 >>,
       << 0, 0, scale[3], 0 >>,
       << translation[1], translation[2], translation[3], 1 >> >>

\* mutant: the model is centred on position, not on position + half_size
build_model_uncentred(size, position) ==
    LET half_size == << f32_div2(size[1]), f32_div2(size[2]) >>
        center    == << position[1], position[2], 0 >>
        scale     == << half_size[1], half_size[2], 1 >>
    IN  [ model |-> from_scale_rotation_translation(scale, center),
          half_size |-> half_size ]

build_model(size, position) ==
    LET half_size == << f32_div2(size[1]), f32_div2(size[2]) >>
        center    == << f32_add(position[1], half_size[1]),
                        f32_add(position[2], half_size[2]), 0 >>
        scale     == << half_size[1], half_size[2], 1 >>
    IN  [ model |-> from_scale_rotation_translation(scale, center),
          half_size |-> half_size ]

build_rectangle(view_projection, position, size, block_style) ==
    [ mvp |-> mat4_mul(view_projection, build_model(size, position).model),
      half_size |-> build_model(size, position).half_size,
      fill_color |-> block_style.fill_color,
      border_color |-> block_style.border_color,
      corner_radii |-> block_style.corner_radii,
      border_size |-> block_style.border_size,
      shadow_color |-> block_style.shadow_color,
      shadow_offset |-> block_style.shadow_offset,
      shadow_blur |-> block_style.shadow_blur,
      shadow_spread |-> block_style.shadow_spread,
      _padding |-> 0 ]

\* what set_size, set_position and set_size_and_position write through the
\* handle of get_mut_rectangle
geometry_write(view_projection, size, position) ==
    [ kind |-> "geometry",
      mvp |-> mat4_mul(view_projection, build_model(size, position).model),
      half_size |-> build_model(size, position).half_size ]

\* what set_style writes through the handle of get_mut_rectangle
style_write(style) == [ kind |-> "style", style |-> style ]

Unpositioned == [ positioned |-> FALSE ]

Positioned(rectangle_id, position) ==
    [ positioned |-> TRUE, rectangle_id |-> rectangle_id,
      position |-> position ]

Block(state, style, size) == [ state |-> state, style |-> style, size |-> size ]

UnpositionedBlocks ==
    { b \in 1..Len(blocks) : ~blocks[b].state.positioned }

PositionedBlocks == { b \in 1..Len(blocks) : blocks[b].state.positioned }

\* what the call record keeps of a Block operation that calls nothing of the
\* Renderer: its name and its block
PreBlock(by, b) == [ NoPre EXCEPT !.by = by, !.block = b ]

\* a Block operation that calls nothing of the Renderer
BlockOnly(by, b) ==
    /\ status = "running"
    /\ call' = Call("none", NoKey, None, PreBlock(by, b))
    /\ UNCHANGED << store_vars, is_redraw_required, target_vars,
                    input_state, status, device_error, hist >>

\* mutant: Block::new registers an instance for the block it makes
UnpositionedNew_registers(sizes, styles) ==
    \E size \in sizes, style \in styles, vp \in ViewProjections :
      /\ blocks' = Append(blocks, Block(Unpositioned, style, size))
      /\ Len(blocks) < MaxBlocks
      /\ AddOf(build_rectangle(vp, << 0, 0 >>, size, style),
               PreBlock("Unpositioned::new", Len(blocks) + 1),
               MaxBlocks, MaxBlocks)

\* Block::<Unpositioned>::new(size, style)
UnpositionedNew(sizes, styles) ==
    \E size \in sizes, style \in styles :
      /\ Len(blocks) < MaxBlocks
      /\ blocks' = Append(blocks, Block(Unpositioned, style, size))
      /\ BlockOnly("Unpositioned::new", Len(blocks) + 1)

\* Block::<Unpositioned>::set_size(size)
unpositioned_set_size ==
    \E b \in UnpositionedBlocks, size \in BlockSizes :
      /\ blocks' = [ blocks EXCEPT ![b].size = size ]
      /\ BlockOnly("Unpositioned::set_size", b)

\* Block::<Unpositioned>::set_style(style)
unpositioned_set_style ==
    \E b \in UnpositionedBlocks, style \in BlockStyles :
      /\ blocks' = [ blocks EXCEPT ![b].style = style ]
      /\ BlockOnly("Unpositioned::set_style", b)

\* what the call record keeps of a Block operation that calls the Renderer:
\* its block, and the view_projection it was given, if any
PreGeometry(pre, b, view_projection) ==
    [ pre EXCEPT !.block = b, !.view_projection = view_projection ]

\* Block::<Unpositioned>::make_positioned(self, position, view_projection,
\* renderer) on block b: the block is consumed and the Positioned one takes
\* its place
MakePositionedWith(b, position, vp, limit) ==
    /\ blocks' =
          [ blocks EXCEPT ![b] =
              Block(Positioned(InsertKey(instances), position),
                    blocks[b].style, blocks[b].size) ]
    /\ AddOf(build_rectangle(vp, position, blocks[b].size, blocks[b].style),
             PreGeometry(NoPre, b, vp), limit, limit)

MakePositionedOf(positions, view_projections, limit) ==
    \E b \in UnpositionedBlocks, position \in positions,
       vp \in view_projections :
      MakePositionedWith(b, position, vp, limit)

MakePositioned(positions) ==
    MakePositionedOf(positions, ViewProjections, MaxBlocks)

\* Block::<Positioned>::new(position, size, style, view_projection, renderer)
PositionedNewWith(position, size, style, vp, limit) ==
    /\ Len(blocks) < limit
    /\ blocks' =
          Append(blocks,
                 Block(Positioned(InsertKey(instances), position),
                       style, size))
    /\ AddOf(build_rectangle(vp, position, size, style),
             PreGeometry(NoPre, Len(blocks) + 1, vp), limit, limit)

PositionedNewOf(positions, sizes, styles, view_projections, limit) ==
    \E position \in positions, size \in sizes, style \in styles,
       vp \in view_projections :
      PositionedNewWith(position, size, style, vp, limit)

PositionedNew(positions, sizes, styles) ==
    PositionedNewOf(positions, sizes, styles, ViewProjections, MaxBlocks)

\* mutant: set_size builds the model from the size the block had
SetSizeWith_stale(b, size, vp) ==
    /\ blocks' = [ blocks EXCEPT ![b].size = size ]
    /\ GetMutWith(blocks[b].state.rectangle_id,
                  geometry_write(vp, blocks[b].size,
                                 blocks[b].state.position),
                  PreGeometry(PreKeyed(blocks[b].state.rectangle_id), b, vp))

\* Block::<Positioned>::set_size(size, view_projection, renderer) on block b
SetSizeWith(b, size, vp) ==
    /\ blocks' = [ blocks EXCEPT ![b].size = size ]
    /\ GetMutWith(blocks[b].state.rectangle_id,
                  geometry_write(vp, size, blocks[b].state.position),
                  PreGeometry(PreKeyed(blocks[b].state.rectangle_id), b, vp))

SetSizeOf(sizes, view_projections) ==
    \E b \in PositionedBlocks, size \in sizes, vp \in view_projections :
      SetSizeWith(b, size, vp)

set_size == SetSizeOf(BlockSizes, ViewProjections)

\* Block::<Positioned>::set_position(position, view_projection, renderer) on
\* block b
SetPositionWith(b, position, vp) ==
    /\ blocks' = [ blocks EXCEPT ![b].state.position = position ]
    /\ GetMutWith(blocks[b].state.rectangle_id,
                  geometry_write(vp, blocks[b].size, position),
                  PreGeometry(PreKeyed(blocks[b].state.rectangle_id), b, vp))

SetPositionOf(positions, view_projections) ==
    \E b \in PositionedBlocks, position \in positions,
       vp \in view_projections :
      SetPositionWith(b, position, vp)

set_position == SetPositionOf(PlacedPositions, ViewProjections)

\* Block::<Positioned>::set_size_and_position(size, position,
\* view_projection, renderer) on block b
SetSizeAndPositionWith(b, size, position, vp) ==
    /\ blocks' = [ blocks EXCEPT ![b].state.position = position,
                                 ![b].size = size ]
    /\ GetMutWith(blocks[b].state.rectangle_id,
                  geometry_write(vp, size, position),
                  PreGeometry(PreKeyed(blocks[b].state.rectangle_id), b, vp))

SetSizeAndPositionOf(sizes, positions, view_projections) ==
    \E b \in PositionedBlocks, size \in sizes, position \in positions,
       vp \in view_projections :
      SetSizeAndPositionWith(b, size, position, vp)

set_size_and_position ==
    SetSizeAndPositionOf(BlockSizes, PlacedPositions, ViewProjections)

\* Block::<Positioned>::set_style(style, renderer) on block b
SetStyleWith(b, style) ==
    /\ blocks' = [ blocks EXCEPT ![b].style = style ]
    /\ GetMutWith(blocks[b].state.rectangle_id, style_write(style),
                  PreGeometry(PreKeyed(blocks[b].state.rectangle_id),
                              b, << >>))

SetStyleOf(styles) ==
    \E b \in PositionedBlocks, style \in styles : SetStyleWith(b, style)

set_style == SetStyleOf(BlockStyles)

\* mutant: destroy removes nothing from the store
destroy_forgets ==
    \E b \in PositionedBlocks :
      /\ status = "running"
      /\ call' = Call("remove", blocks[b].state.rectangle_id, None,
                      PreKeyed(blocks[b].state.rectangle_id))
      /\ UNCHANGED << store_vars, is_redraw_required, target_vars,
                      input_state, status, device_error, hist, blocks >>

\* Block::<Positioned>::destroy(&self, renderer): the block stays with the
\* caller
destroy ==
    \E b \in PositionedBlocks :
      /\ UNCHANGED blocks
      /\ RemoveKey(blocks[b].state.rectangle_id,
                   PreKeyed(blocks[b].state.rectangle_id))

(* ------------------------- blocks before placement --------------------- *)
(* Blocks of any size and style are made, changed while Unpositioned and   *)
(* placed, and the Renderer renders.                                       *)

unplaced_new == UnpositionedNew(BlockSizes, BlockStyles)

unplaced_make_positioned == MakePositioned(BlockPositions)

NextUnplaced ==
    \/ unplaced_new \/ unpositioned_set_size \/ unpositioned_set_style
    \/ unplaced_make_positioned \/ Render

SpecUnplaced == Init /\ [][NextUnplaced]_vars

(* --------------------------- blocks once placed ------------------------ *)
(* Blocks are made with one size and style and placed at one position;     *)
(* placed blocks are resized, restyled, set to the position they have and  *)
(* destroyed, before the Renderer renders.                                 *)

unpositioned_new == UnpositionedNew(PlacedSizes, PlacedStyles)

make_positioned == MakePositioned(PlacedPositions)

positioned_new == PositionedNew(PlacedPositions, PlacedSizes, PlacedStyles)

NextBlocks ==
    \/ unpositioned_new \/ make_positioned \/ positioned_new
    \/ set_size \/ set_position \/ set_size_and_position \/ set_style
    \/ destroy

SpecBlocks == Init /\ [][NextBlocks]_vars

(* ------------------------------ build_model ---------------------------- *)
(* Blocks are placed, resized and moved under the identity view_projection, *)
(* so that each instance's mvp is the model matrix build_model made; some   *)
(* positions and sizes have a sum position + size / 2 that is no f32 value. *)

ModelPositions == { << 0, 0 >>, << 1, 3 >>, << 18, 5 >>, << 7, 12 >> }

ModelSizes == { << 2, 4 >>, << 32, 6 >>, << 10, 28 >> }

model_new ==
    PositionedNewOf(ModelPositions, ModelSizes, { DefaultStyle },
                    { IDENTITY }, MaxModelled)

model_set_size == SetSizeOf(ModelSizes, { IDENTITY })

model_set_position == SetPositionOf(ModelPositions, { IDENTITY })

model_set_size_and_position ==
    SetSizeAndPositionOf(ModelSizes, ModelPositions, { IDENTITY })

NextModel ==
    \/ model_new \/ model_set_size \/ model_set_position
    \/ model_set_size_and_position

SpecModel == Init /\ [][NextModel]_vars

(* ----------------------------- block geometry -------------------------- *)
(* Blocks are placed with Block::<Positioned>::new and then resized, moved  *)
(* and restyled, each call with either view_projection; none is destroyed.  *)

GeometryViewProjections == ViewProjections \cup { IDENTITY }

geometry_new ==
    PositionedNewOf(BlockPositions, PlacedSizes, PlacedStyles,
                    GeometryViewProjections, MaxModelled)

geometry_set_size == SetSizeOf(BlockSizes, GeometryViewProjections)

geometry_set_position ==
    SetPositionOf(BlockPositions, GeometryViewProjections)

geometry_set_size_and_position ==
    SetSizeAndPositionOf(BlockSizes, BlockPositions, GeometryViewProjections)

NextGeometry ==
    \/ geometry_new \/ geometry_set_size \/ geometry_set_position
    \/ geometry_set_size_and_position \/ set_style

SpecGeometry == Init /\ [][NextGeometry]_vars

(* ------------------------------ input events --------------------------- *)
(* An InputState with no pointer position and either state of each button  *)
(* is synced with window events. The type has no constructor: its fields    *)
(* start as the code that makes one sets them.                              *)

InitInput ==
    \E cfg \in SurfaceConfigs, left \in MouseButtonState,
       right \in MouseButtonState :
      New(cfg) /\ input_state = InputState(None, left, right)

\* InputState::sync(event); the call record keeps the event and the
\* InputState it found
Sync ==
    \E event \in WindowEvents :
      /\ status = "running"
      /\ input_state' = sync(input_state, event)
      /\ call' = [ op |-> "sync", event |-> event, pre |-> input_state ]
      /\ hist' = [ hist EXCEPT
                     !.pointer = IF event.event = "CursorMoved"
                                 THEN Some(event.position) ELSE @ ]
      /\ UNCHANGED << store_vars, is_redraw_required, target_vars, blocks,
                      status, device_error >>

NextInput == Sync

SpecInput == InitInput /\ [][NextInput]_vars

(* ------------------------------- claims -------------------------------- *)

\* the slot indexes holding a live instance
LiveIndexes == { i \in 1..Len(instances.slots) : Occupied(instances.slots[i]) }

\* the slot index of the n-th live instance in iteration (slot) order
NthLive(n) ==
    CHOOSE i \in LiveIndexes :
      Cardinality({ j \in LiveIndexes : j <= i }) = n

\* cells holds exactly the live instances' records, in iteration order
MirrorsLive(cells) ==
    /\ Len(cells) = Cardinality(LiveIndexes) * SIZE
    /\ \A n \in 1..Cardinality(LiveIndexes) : \A f \in 1..SIZE :
         cells[(n - 1) * SIZE + f] =
            instances.slots[NthLive(n)].value[FieldOrder[f]]

Rendered == call.op = "render"

OffscreenOpened ==
    \E i \in 1..Len(call.passes) : call.passes[i].label = "hui::render_pass"

\* C1: between renders Dirtiness never moves down in the order
\* Clean < RedrawRequired < RebuildAndRedrawRequired: every add, get_mut,
\* remove or resize leaves it where it was or higher.
C1_DirtinessMonotone ==
    [][ call'.op # "render"
          => DirtinessRank(dirtiness') >= DirtinessRank(dirtiness) ]_vars

\* an add made while a rebuild was pending left the rebuild pending
C1_Witness ==
    /\ call.op = "add"
    /\ dirtiness = "RebuildAndRedrawRequired"

\* C2: a render with a live instance, after a remove or get_mut since the
\* last completed draw, uploads exactly live_count records equal to the live
\* instances' current values in iteration order (nothing of a removed one).
C2_RebuildCorrectness ==
    (Rendered /\ call.pre.mutated /\ len(instances) >= 1)
      => /\ Len(call.uploads) = 1
         /\ call.uploads[1].offset = 0
         /\ Len(call.uploads[1].data) = len(instances) * SIZE
         /\ MirrorsLive(call.uploads[1].data)

\* a render after a removal left a vacant slot before a live one
C2_Witness ==
    /\ Rendered /\ call.pre.mutated /\ call.uploads # << >>
    /\ \E i \in 1..Len(instances.slots), j \in LiveIndexes :
         i < j /\ ~Occupied(instances.slots[i])

\* C3: from a Clean store of K instances, N >= 1 adds with no get_mut or
\* remove between, then render: one upload of (K+N) * SIZE cells at offset
\* 0, one draw of K+N instances, and no clear-and-regenerate of the staging.
C3_AppendOnlyFastPath ==
    (Rendered /\ ~call.pre.mutated /\ call.pre.appended >= 1)
      => /\ Len(call.uploads) = 1
         /\ call.uploads[1].offset = 0
         /\ Len(call.uploads[1].data) =
               (call.pre.base + call.pre.appended) * SIZE
         /\ Len(call.draws) = 1
         /\ call.draws[1].instances = call.pre.base + call.pre.appended
         /\ ~call.rebuilt

\* a fast-path render with K >= 1 drawn before and N >= 1 appended since
C3_Witness ==
    /\ Rendered /\ ~call.pre.mutated
    /\ call.pre.base >= 1 /\ call.pre.appended >= 1
    /\ call.draws # << >>

StaleCall(c) == c.op \in { "get_mut", "remove" } /\ c.pre.stale

\* C4: get_mut or remove with a key removed before returns nothing and
\* leaves every live instance in place with its value, also when the key's
\* slot has been reused by a later add.
C4_StaleHarmless ==
    [][ StaleCall(call')
          => /\ call'.ret = None
             /\ Len(instances'.slots) = Len(instances.slots)
             /\ \A i \in LiveIndexes :
                  instances'.slots[i] = instances.slots[i] ]_vars

\* a stale call whose slot holds a later add's instance
C4_Witness ==
    /\ StaleCall(call)
    /\ call.id.idx \in LiveIndexes
    /\ instances.slots[call.id.idx].version # call.id.version

\* C5 as claimed: a stale get_mut or remove returns nothing and leaves the
\* live instances, the staging buffer and Dirtiness as they were.
C5_StaleLeavesStore ==
    [][ StaleCall(call')
          => /\ call'.ret = None
             /\ instances' = instances
             /\ instance_bytes' = instance_bytes
             /\ dirtiness' = dirtiness ]_vars

\* C5 amended: a stale get_mut or remove returns nothing and leaves the live
\* instances, the staging buffer and the instance buffer as they were, and
\* sets Dirtiness to RebuildAndRedrawRequired.
C5_StaleEscalates ==
    [][ StaleCall(call')
          => /\ call'.ret = None
             /\ instances' = instances
             /\ instance_bytes' = instance_bytes
             /\ instance_buffer' = instance_buffer
             /\ dirtiness' = "RebuildAndRedrawRequired" ]_vars

\* a stale remove on a store that had been drawn since the removal
C5_Witness ==
    /\ StaleCall(call) /\ call.op = "remove"
    /\ call.ret = None
    /\ hist.rendered
    /\ len(instances) >= 1

\* C6: going past the preallocated maximum is signalled: a store that is
\* running with no error reported holds at most MAX_INSTANCE_COUNT instances.
C6_CapacitySignalled ==
    (status = "running" /\ ~device_error)
      => len(instances) <= MAX_INSTANCE_COUNT

\* C7: a render with no add, get_mut, remove or resize since the previous
\* render opens no offscreen pass and still runs the composite pass.
C7_UnchangedSkipsOffscreen ==
    (Rendered /\ call.pre.rendered /\ ~call.pre.changed)
      => /\ ~OffscreenOpened
         /\ call.rectangle_renders = 0
         /\ Len(call.composite) = 1

\* C8: the render after a resize opens the offscreen pass on the offscreen
\* view and calls the rectangle pass, whatever the store's Dirtiness.
C8_ResizeInvalidates ==
    (Rendered /\ call.pre.resized)
      => /\ OffscreenOpened
         /\ call.passes[1] = offscreen_pass(offscreen_texture_view)
         /\ call.rectangle_renders = 1

\* a render after a resize of a Clean, already drawn store
C8_Witness ==
    /\ Rendered /\ call.pre.resized
    /\ call.pre.dirtiness = "Clean" /\ call.pre.rendered
    /\ call.draws # << >>

\* C9: the first render after new opens the offscreen pass, with or without
\* rectangles.
C9_FirstRenderOpensOffscreen ==
    (Rendered /\ ~call.pre.rendered)
      => /\ OffscreenOpened
         /\ call.passes[1].label = "hui::render_pass"

\* a first render of a store nothing was ever added to
C9_Witness ==
    /\ Rendered /\ ~call.pre.rendered
    /\ call.pre.dirtiness = "Clean"
    /\ hist.issued = {}

\* C10: every render runs the composite pass exactly once, on the surface
\* view, as the last pass; the offscreen pass, when there is one, is before.
C10_CompositeOncePerRender ==
    Rendered
      => /\ Cardinality({ i \in 1..Len(call.passes) :
                            call.passes[i].label = "hui::composite_pass" }) = 1
         /\ call.passes[Len(call.passes)] = composite_pass
         /\ Len(call.composite) = 1
         /\ Len(call.passes) <= 2
         /\ Len(call.passes) = 2 => call.passes[1].label = "hui::render_pass"

\* a render of a Clean store with no redraw pending: the composite pass alone
C10_Witness ==
    /\ Rendered
    /\ Len(call.passes) = 1
    /\ len(instances) >= 1

\* C11: the composite pass's bind group is always the one created from the
\* Renderer's current offscreen texture view, which is a view of the current
\* offscreen texture; after any resizes the composite pass samples that view.
C11_BindingFresh ==
    /\ bind_group = create_bind_group(offscreen_texture_view)
    /\ offscreen_texture_view = create_view(offscreen_texture)
    /\ (Rendered /\ call.composite # << >>)
          => call.composite[1].bind_group.view.texture = offscreen_texture.id

\* a render after the second resize or a later one, to an extent other than
\* the one the Renderer was made with
C11_Witness ==
    /\ Rendered /\ call.composite # << >>
    /\ textures_created >= 6
    /\ offscreen_texture.width # 2

\* C12: after new and after any resizes the offscreen texture has the format
\* both render pipelines were built for, the surface format given to new.
C12_FormatKept ==
    /\ offscreen_texture.format = pipelines.composite
    /\ offscreen_texture.format = pipelines.rectangle

\* a second or later resize of a Renderer made for Rgba8Unorm
C12_Witness ==
    /\ call.op = "resize"
    /\ textures_created >= 6
    /\ pipelines.composite = "Rgba8Unorm"
    /\ offscreen_texture.id = textures_created

\* C13: every render that uploads and draws leaves Dirtiness Clean, and a
\* step that takes Dirtiness to Clean from another value is a render that
\* drew: add, get_mut, remove and resize never do.
C13_DirtinessReset ==
    [][ /\ (call'.op = "render" /\ call'.uploads # << >>
              /\ call'.draws # << >>) => dirtiness' = "Clean"
        /\ (dirtiness' = "Clean" /\ dirtiness # "Clean")
              => (call'.op = "render" /\ call'.draws # << >>) ]_vars

\* a render that rebuilt, uploaded and drew, and left the store Clean
C13_Witness ==
    /\ Rendered /\ call.draws # << >> /\ call.rebuilt
    /\ call.pre.dirtiness = "RebuildAndRedrawRequired"
    /\ dirtiness = "Clean"

\* C14: after every get_mut and every remove Dirtiness is
\* RebuildAndRedrawRequired, whatever it was before, whether or not the key
\* finds an instance and whether or not the caller writes through the handle.
C14_KeyedCallsEscalate ==
    call.op \in { "get_mut", "remove" }
      => dirtiness = "RebuildAndRedrawRequired"

\* a get_mut that found nothing, on a store that has been drawn
C14_Witness ==
    /\ call.op = "get_mut" /\ call.ret = None
    /\ instance_buffer # << >>
    /\ dirtiness = "RebuildAndRedrawRequired"

\* C15: add leaves RedrawRequired from Clean or RedrawRequired and keeps
\* RebuildAndRedrawRequired; it appends the one record of the instance it
\* inserted to the staging vector and raises the live count by one.
C15_AddEffect ==
    [][ call'.op = "add"
          => /\ dirtiness' =
                  IF dirtiness = "RebuildAndRedrawRequired"
                  THEN "RebuildAndRedrawRequired" ELSE "RedrawRequired"
             /\ Len(instance_bytes') = Len(instance_bytes) + SIZE
             /\ SubSeq(instance_bytes', 1, Len(instance_bytes))
                  = instance_bytes
             /\ SubSeq(instance_bytes', Len(instance_bytes) + 1,
                       Len(instance_bytes'))
                  = bytes_of(instances'.slots[call'.ret.value.idx].value)
             /\ len(instances') = len(instances) + 1
             /\ contains_key(instances', call'.ret.value)
             /\ ~contains_key(instances, call'.ret.value) ]_vars

\* an add to a store that was drawn and is still Clean but for this add
C15_Witness ==
    /\ call.op = "add"
    /\ dirtiness = "RedrawRequired"
    /\ hist.rendered /\ hist.appended = 1 /\ hist.base >= 1
    /\ Len(instance_bytes) = (hist.base + 1) * SIZE

\* C16: a render of a store with no live instance is no error: it records
\* no upload and no draw, and the composite pass runs in the same render.
C16_ZeroInstanceFrame ==
    (Rendered /\ len(instances) = 0)
      => /\ status = "running" /\ ~device_error
         /\ call.uploads = << >>
         /\ call.draws = << >>
         /\ Len(call.composite) = 1
         /\ call.passes[Len(call.passes)] = composite_pass

\* a render that opened the offscreen pass on a store emptied by removes
C16_Witness ==
    /\ Rendered /\ len(instances) = 0
    /\ call.rectangle_renders = 1
    /\ hist.removed # {}
    /\ call.composite # << >>

\* the number of occupied slots of a SlotMap
LiveCount(sm) ==
    Cardinality({ i \in 1..Len(sm.slots) : Occupied(sm.slots[i]) })

\* C17: make_positioned and Block::<Positioned>::new each raise the live
\* count by exactly one, under a key that was not live; destroy of a placed
\* block not destroyed before lowers it by exactly one; a repeated destroy,
\* Block::<Unpositioned>::new and the four Positioned setters leave it.
\* (Each line reads "the step keeps the count, or it is none of these".)
C17_LifecycleCount ==
    [][ /\ (make_positioned \/ positioned_new)
              => /\ len(instances') = len(instances) + 1
                 /\ LiveCount(instances') = LiveCount(instances) + 1
                 /\ ~contains_key(instances, call'.ret.value)
                 /\ contains_key(instances', call'.ret.value)
        /\ (call'.op = "remove" /\ ~call'.pre.stale /\ destroy)
              => /\ len(instances') = len(instances) - 1
                 /\ LiveCount(instances') = LiveCount(instances) - 1
                 /\ contains_key(instances, call'.id)
                 /\ ~contains_key(instances', call'.id)
        /\ \/ /\ len(instances') = len(instances)
              /\ LiveCount(instances') = LiveCount(instances)
           \/ ~ \/ (call'.op = "remove" /\ call'.pre.stale /\ destroy)
                \/ unpositioned_new \/ set_size \/ set_position
                \/ set_size_and_position \/ set_style ]_vars

\* one of two placed blocks was destroyed: one instance is left
C17_Witness ==
    /\ call.op = "remove" /\ call.ret # None /\ ~call.pre.stale
    /\ Cardinality(PositionedBlocks) = 2
    /\ len(instances) = 1

\* C18: no two Positioned blocks hold the same RectangleId, destroyed blocks
\* included: a block placed later never gets the identifier an earlier
\* block got from add.
C18_ExclusiveIds ==
    \A a \in PositionedBlocks, b \in PositionedBlocks :
      a # b => blocks[a].state.rectangle_id # blocks[b].state.rectangle_id

\* a block placed in the slot that a destroyed block's instance had
C18_Witness ==
    \E a \in PositionedBlocks, b \in PositionedBlocks :
      /\ a < b
      /\ blocks[a].state.rectangle_id.idx = blocks[b].state.rectangle_id.idx
      /\ blocks[a].state.rectangle_id \in hist.removed
      /\ contains_key(instances, blocks[b].state.rectangle_id)

\* the fields f of every live instance that a step leaves as they are, but
\* for the fields in group of the instance under key id
OnlyWrites(id, group) ==
    /\ Len(instances'.slots) = Len(instances.slots)
    /\ \A i \in 1..Len(instances.slots) :
         IF i = id.idx /\ contains_key(instances, id)
         THEN /\ instances'.slots[i].version = instances.slots[i].version
              /\ \A n \in 1..SIZE :
                   FieldOrder[n] \notin group
                     => instances'.slots[i].value[FieldOrder[n]]
                          = instances.slots[i].value[FieldOrder[n]]
         ELSE instances'.slots[i] = instances.slots[i]

\* C19: set_style leaves mvp, half_size and the padding of the block's
\* instance as they were; set_size, set_position and set_size_and_position
\* leave its colour, border, corner-radius and shadow fields as they were;
\* each leaves every other instance as it was, also when the block was
\* destroyed and its slot holds another block's instance.
\* (Each line reads "the step writes in the group only, or it is none of
\* these".)
C19_OwnFieldGroup ==
    [][ /\ \/ OnlyWrites(call'.id, StyleFields)
           \/ ~set_style
        /\ \/ OnlyWrites(call'.id, GeometryFields)
           \/ ~(set_size \/ set_position \/ set_size_and_position) ]_vars

\* a Positioned setter found its instance among two live ones, after the
\* instance was both resized and restyled
C19_Witness ==
    /\ call.op = "get_mut" /\ call.ret # None
    /\ len(instances) = 2
    /\ instances.slots[call.id.idx].value.half_size = << 2, 1 >>
    /\ instances.slots[call.id.idx].value.fill_color = DefaultStyle.fill_color

\* the live instances are those the Positioned blocks hold, one each
PlacedOwnLive ==
    /\ \A b \in PositionedBlocks :
         contains_key(instances, blocks[b].state.rectangle_id)
    /\ LiveIndexes = { blocks[b].state.rectangle_id.idx : b \in PositionedBlocks }
    /\ len(instances) = Cardinality(PositionedBlocks)

\* C20: Block::<Unpositioned>::new, set_size and set_style leave the store
\* (instances, staging vector, Dirtiness, instance buffer) and the rest of
\* the Renderer as they were and change the one block only; and after every
\* step the live instances are exactly those of the Positioned blocks.
C20_TwoPhase ==
    [][ /\ (unplaced_new \/ unpositioned_set_size \/ unpositioned_set_style)
              => /\ UNCHANGED << store_vars, is_redraw_required, target_vars >>
                 /\ \A b \in 1..Len(blocks) :
                      b # call'.pre.block => blocks'[b] = blocks[b]
                 /\ ~blocks'[call'.pre.block].state.positioned
        /\ PlacedOwnLive' ]_vars

\* an Unpositioned block was resized beside a placed block whose instance
\* has been drawn
C20_Witness ==
    /\ call.pre.by = "Unpositioned::set_size"
    /\ blocks[call.pre.block].size = << 4, 2 >>
    /\ len(instances) = 1
    /\ instance_buffer # << >>
    /\ dirtiness = "Clean"

\* the instance block b holds
InstanceOf(b) == instances.slots[blocks[b].state.rectangle_id.idx].value

\* where the matrix m takes the point (x, y, 0) of the unit quad, in exact
\* arithmetic
transform_point(m, x, y) ==
    << m[1][1] * x + m[2][1] * y + m[4][1],
       m[1][2] * x + m[2][2] * y + m[4][2] >>

\* the matrix m scales by half, moves to center and neither rotates nor flips
ScalesAndMoves(m, half, center) ==
    m = << << half[1], 0, 0, 0 >>, << 0, half[2], 0, 0 >>,
           << 0, 0, 1, 0 >>, << center[1], center[2], 0, 1 >> >>

\* C21 as claimed: under the identity view_projection the half-extent is
\* size / 2 and the matrix takes the unit quad's corner (-1,-1) exactly to
\* position and (1,1) exactly to position + size.
C21_CornersExact ==
    \A b \in PositionedBlocks :
      LET r == InstanceOf(b)
          p == blocks[b].state.position
          s == blocks[b].size
      IN  /\ 2 * r.half_size[1] = s[1] /\ 2 * r.half_size[2] = s[2]
          /\ transform_point(r.mvp, -1, -1) = p
          /\ transform_point(r.mvp, 1, 1) = << p[1] + s[1], p[2] + s[2] >>

\* C21 amended: under the identity view_projection the half-extent is
\* size / 2 and the matrix scales by it and moves to a centre c, without
\* rotation or flip, where c is position + half-extent rounded to f32 (off
\* by at most half the spacing of f32 values there); the corners (-1,-1) and
\* (1,1) go to c - half-extent and c + half-extent, which are position and
\* position + size exactly when position + half-extent is an f32 value.
C21_CornersRounded ==
    \A b \in PositionedBlocks :
      LET r == InstanceOf(b)
          p == blocks[b].state.position
          s == blocks[b].size
          h == r.half_size
          c == << r.mvp[4][1], r.mvp[4][2] >>
      IN  /\ 2 * h[1] = s[1] /\ 2 * h[2] = s[2]
          /\ ScalesAndMoves(r.mvp, h, c)
          /\ \A i \in 1..2 :
               /\ 2 * abs(c[i] - (p[i] + h[i])) <= ulp(abs(p[i] + h[i]))
               /\ f32_round(p[i] + h[i]) = p[i] + h[i] => c[i] = p[i] + h[i]
          /\ transform_point(r.mvp, -1, -1) = << c[1] - h[1], c[2] - h[2] >>
          /\ transform_point(r.mvp, 1, 1) = << c[1] + h[1], c[2] + h[2] >>
          /\ transform_point(r.mvp, -1, 1) = << c[1] - h[1], c[2] + h[2] >>
          /\ transform_point(r.mvp, 1, -1) = << c[1] + h[1], c[2] - h[2] >>

\* a block whose position + half-extent is no f32 value: its corner (-1,-1)
\* is not at its position
C21_Witness ==
    \E b \in PositionedBlocks :
      /\ blocks[b].state.position = << 1, 3 >>
      /\ blocks[b].size = << 32, 6 >>
      /\ transform_point(InstanceOf(b).mvp, -1, -1) = << 0, 3 >>

Synced == call.op = "sync"

\* the state a mouse-button event puts its button in
ButtonStateOf(state) == IF state = "Pressed" THEN "Down" ELSE "Up"

\* C22: a synced event changes only the state of the button it names: a
\* Left press or release sets left to Down or Up and leaves right, a Right
\* one sets right and leaves left, and an event for another button or an
\* event that is no mouse-button event leaves both.
C22_ButtonTracking ==
    Synced =>
      LET named == IF call.event.event = "MouseInput"
                   THEN call.event.button.button ELSE "none"
      IN  /\ named = "Left"
             => /\ input_state.left_mouse_button
                     = ButtonStateOf(call.event.state)
                /\ input_state.right_mouse_button
                     = call.pre.right_mouse_button
          /\ named = "Right"
             => /\ input_state.right_mouse_button
                     = ButtonStateOf(call.event.state)
                /\ input_state.left_mouse_button
                     = call.pre.left_mouse_button
          /\ named \notin { "Left", "Right" }
             => /\ input_state.left_mouse_button
                     = call.pre.left_mouse_button
                /\ input_state.right_mouse_button
                     = call.pre.right_mouse_button

\* a Left press found left Up and right Down: left is Down, right still Down
C22_Witness ==
    /\ Synced
    /\ call.event = [ event |-> "MouseInput", state |-> "Pressed",
                      button |-> [ button |-> "Left" ] ]
    /\ call.pre.left_mouse_button = "Up"
    /\ call.pre.right_mouse_button = "Down"
    /\ input_state.left_mouse_button = "Down"
    /\ input_state.right_mouse_button = "Down"

\* C23: the pointer position is absent until the first pointer-movement
\* event is synced, and from then on it is present and holds the position of
\* the pointer-movement event synced (last).
C23_PointerTracked ==
    /\ input_state.mouse_position = hist.pointer
    /\ (Synced /\ call.event.event = "CursorMoved")
         => input_state.mouse_position = Some(call.event.position)

\* the records in cells, SIZE cells each, in order
RecordsOf(cells) ==
    [ n \in 1..(Len(cells) \div SIZE) |->
        SubSeq(cells, (n - 1) * SIZE + 1, n * SIZE) ]

\* the live instances' records, in iteration order
LiveRecords ==
    [ n \in 1..Cardinality(LiveIndexes) |->
        bytes_of(instances.slots[NthLive(n)].value) ]

\* a and b hold the same elements the same number of times
SameMultiset(a, b) ==
    /\ Len(a) = Len(b)
    /\ \A i \in 1..Len(a) :
         Cardinality({ j \in 1..Len(a) : a[j] = a[i] })
           = Cardinality({ j \in 1..Len(b) : b[j] = a[i] })

Uploaded == Rendered /\ call.uploads # << >>

\* C24: at every upload of render, on the fast path or after a rebuild, the
\* uploaded records are as a multiset the live instances' current values:
\* none of a removed instance, no outdated value, none missing or twice.
C24_NoStaleUpload ==
    Uploaded =>
      /\ Len(call.uploads) = 1
      /\ Len(call.uploads[1].data) % SIZE = 0
      /\ SameMultiset(RecordsOf(call.uploads[1].data), LiveRecords)

\* an upload without rebuild of two different records, after an add took the
\* slot of an instance removed and drawn over before
C24_Witness ==
    /\ Uploaded /\ ~call.rebuilt
    /\ call.pre.dirtiness = "RedrawRequired"
    /\ len(instances) = 2
    /\ hist.removed # {}
    /\ LiveRecords[1] # LiveRecords[2]

\* C25: a render taken with Dirtiness = RedrawRequired uploads the live
\* instances' records in the collection's current iteration order, also
\* when an add reused a slot freed by a remove that was drawn over before.
C25_StagingMirrorsOrder ==
    (Uploaded /\ call.pre.dirtiness = "RedrawRequired")
      => RecordsOf(call.uploads[1].data) = LiveRecords

\* C26: render opens the offscreen pass and calls the rectangle pass if and
\* only if, at entry, the Renderer's is_redraw_required flag is set or the
\* store's is_redraw_required() is true (Dirtiness is not Clean); when
\* render has returned the flag is unset.
C26_RenderGate ==
    Rendered =>
      /\ (OffscreenOpened /\ call.rectangle_renders = 1)
           <=> (call.pre.is_redraw_required \/ call.pre.dirtiness # "Clean")
      /\ (OffscreenOpened <=> call.rectangle_renders = 1)
      /\ call.rectangle_renders \in { 0, 1 }
      /\ ~is_redraw_required

\* a render with the flag unset that the store's Dirtiness alone sent through
\* the offscreen pass
C26_Witness ==
    /\ Rendered
    /\ ~call.pre.is_redraw_required
    /\ call.pre.dirtiness = "RedrawRequired"
    /\ OffscreenOpened /\ call.rectangle_renders = 1
    /\ call.draws # << >>

\* C27: an identifier that add returned and remove has not taken stays
\* bound to its instance: get_mut of it returns that instance, whose value
\* changes by the write made through the identifier only; every add, remove
\* and get_mut with another identifier and every render and resize leaves
\* the value as it was; and what add returns is bound to the instance added.
C27_IdStable ==
    [][ /\ \A id \in hist.issued :
             contains_key(instances, id) =>
               IF call'.op = "remove" /\ call'.id = id
               THEN ~contains_key(instances', id)
               ELSE /\ contains_key(instances', id)
                    /\ IF call'.op = "get_mut" /\ call'.id = id
                       THEN /\ call'.ret = Some(id.idx)
                            /\ \E w \in Writes :
                                 instances'.slots[id.idx].value =
                                   ApplyWrite(instances.slots[id.idx].value, w)
                       ELSE instances'.slots[id.idx].value =
                              instances.slots[id.idx].value
        /\ call'.op = "add" =>
             /\ ~contains_key(instances, call'.ret.value)
             /\ contains_key(instances', call'.ret.value)
             /\ instances'.slots[call'.ret.value.idx].value \in Rectangles
      ]_vars

\* get_mut through a removed identifier whose slot holds a later instance,
\* beside another live instance that was written to before
C27_Witness ==
    /\ call.op = "get_mut" /\ call.ret = None
    /\ call.id \in hist.removed
    /\ call.id.idx \in LiveIndexes
    /\ len(instances) = 2
    /\ \E i \in LiveIndexes : instances.slots[i].value.mvp = 2

\* C28: after new(surface_config) and after every resize(width, height) the
\* offscreen colour target and the depth target both have the width and
\* height supplied last; add and render leave both sizes as they were.
C28_TargetSizesLockstep ==
    /\ offscreen_texture.width = hist.extent[1]
    /\ offscreen_texture.height = hist.extent[2]
    /\ depth_texture_view.width = hist.extent[1]
    /\ depth_texture_view.height = hist.extent[2]

\* a render after a second resize, to a size other than the first resize's
C28_Witness ==
    /\ Rendered /\ call.pre.resized
    /\ textures_created = 6
    /\ hist.extent = << 4, 2 >>
    /\ depth_texture_view.width = 4
    /\ len(instances) = 1

\* C29: whenever Dirtiness is not RebuildAndRedrawRequired the staging
\* vector holds exactly live_count * SIZE cells; and a render that reaches
\* the upload finds (after its rebuild, if any) exactly that many, so the
\* slice [0, live_count * SIZE) is taken and no render panics.
C29_SliceInBounds ==
    /\ dirtiness # "RebuildAndRedrawRequired"
         => Len(instance_bytes) = len(instances) * SIZE
    /\ (Rendered /\ call.rectangle_renders = 1 /\ len(instances) >= 1)
         => /\ Len(instance_bytes) = len(instances) * SIZE
            /\ Len(call.uploads) = 1
            /\ Len(call.uploads[1].data) = len(instances) * SIZE
    /\ status = "running"

\* a render that found more staged records than live instances, an instance
\* having been removed, and rebuilt the staging to the one live record
C29_Witness ==
    /\ Uploaded /\ call.rebuilt
    /\ call.pre.dirtiness = "RebuildAndRedrawRequired"
    /\ hist.removed # {}
    /\ len(instances) = 1
    /\ Len(instance_bytes) = SIZE

\* block b is Positioned and the store holds its instance
Placed(b) ==
    /\ b \in PositionedBlocks
    /\ contains_key(instances, blocks[b].state.rectangle_id)

\* the last call placed block b or was one of its geometry setters
GeometryCallOn(c, b) == c.pre.block = b /\ c.pre.view_projection # << >>

\* C30: for every placed block whose instance is live, after each step: the
\* instance's half_size is the block's stored size / 2 and its style fields
\* are the block's stored style (and the padding is zero); if the step
\* placed the block or was one of its geometry setters, the instance's mvp
\* is view_projection * model(stored position, stored size) for the
\* view_projection the call was given; any other step leaves the mvp, the
\* stored position and the stored size as they were. (The instance is
\* compared with the Rectangle build_rectangle makes of the stored fields.)
C30_GeometryConsistent ==
    [][ \A b \in 1..Len(blocks') :
          Placed(b)' =>
            IF GeometryCallOn(call', b)
            THEN InstanceOf(b)' =
                   build_rectangle(call'.pre.view_projection,
                                   blocks'[b].state.position,
                                   blocks'[b].size, blocks'[b].style)
            ELSE /\ b \in PositionedBlocks
                 /\ blocks'[b].state.position = blocks[b].state.position
                 /\ blocks'[b].size = blocks[b].size
                 /\ InstanceOf(b)' =
                      [ build_rectangle(IDENTITY, blocks'[b].state.position,
                                        blocks'[b].size, blocks'[b].style)
                          EXCEPT !.mvp = InstanceOf(b).mvp ]
      ]_vars

\* a block placed under one view_projection and moved and resized under the
\* other, then restyled: its instance has the second's mvp and the new style
C30_Witness ==
    /\ call.op = "get_mut" /\ call.ret # None
    /\ Placed(1)
    /\ blocks[1].state.position = << 1, 2 >>
    /\ blocks[1].size = << 4, 2 >>
    /\ blocks[1].style = DefaultStyle
    /\ InstanceOf(1).fill_color = DefaultStyle.fill_color
    /\ InstanceOf(1).mvp = mat4_mul(IDENTITY,
                                    build_model(<< 4, 2 >>, << 1, 2 >>).model)

====
